---- MODULE Spec2Model ----
(***************************************************************************)
(* Model of app.py: a Flask service with three routes ("/", "/predict",   *)
(* "/history") over one SQLite table `predictions`.                       *)
(*                                                                         *)
(* Requests are handled by concurrent workers.  A handler is cut into     *)
(* steps only where it touches state that other requests share: the       *)
(* SQLite file and its locks.  Everything between two such points is      *)
(* local computation and is one step.                                     *)
(***************************************************************************)
EXTENDS Integers, Sequences, FiniteSets

VARIABLES
    started,      \* the module has been imported: init_db() has run
    tableExists,  \* database.db holds the table `predictions`
    db,           \* committed rows of `predictions`, in rowid (B-tree) order
    seq,          \* sqlite_sequence entry of the AUTOINCREMENT column
    writer,       \* holder of the RESERVED lock of the database file
    readers,      \* workers whose SELECT statement holds a SHARED lock
    conns,        \* workers whose sqlite3 connection `conn` is open
    leaked,       \* a connection of a finished request is still open
    pc,           \* position of each worker in its handler
    req,          \* the request a worker is handling
    emotion,      \* predict(): local `emotion`
    confidence,   \* predict(): local `confidence`
    ins,          \* save_prediction(): the row its INSERT built
    cursor,       \* history(): rowid the cursor `c` stands on (0: none)
    rows,         \* history(): rows read from the cursor so far
    resp,         \* the response the handler returned
    npredict      \* number of /predict requests accepted (bounded)

vars == <<started, tableExists, db, seq, writer, readers, conns, leaked,
          pc, req, emotion, confidence, ins, cursor, rows, resp, npredict>>

(***************************************************************************)
(* Bounds of the model.                                                    *)
(***************************************************************************)
MaxPredicts == 2     \* /predict requests accepted in one behaviour
MaxFaces == 2        \* faces the detector returns for one image

\* The requests in flight at one time: two workers give every interleaving of
\* two handlers (writer with writer, writer with reader).
Procs == {"w1", "w2"}

(***************************************************************************)
(* Program constants.                                                      *)
(***************************************************************************)
HistoryLimit == 100  \* LIMIT 100 of the SELECT in history()

None == "None"
NoScore == [kind |-> "None", val |-> 0]

(***************************************************************************)
(* Numbers.  A score is a Python number: an int or a float, `val` in       *)
(* hundredths.  float() turns either into a float of the same value.       *)
(***************************************************************************)
PyInt(v) == [kind |-> "int", val |-> v]
PyFloat(v) == [kind |-> "float", val |-> v]
float(x) == [kind |-> "float", val |-> x.val]

Scores == {PyInt(100), PyFloat(50)}
Labels == {"happy", "sad"}

(***************************************************************************)
(* datetime.utcnow().isoformat(): the microseconds are printed only when   *)
(* they are not zero.                                                      *)
(***************************************************************************)
Times == {[sec |-> 7, micro |-> 0], [sec |-> 7, micro |-> 3]}
isoformat(d) == IF d.micro = 0 THEN <<d.sec>> ELSE <<d.sec, d.micro>>

(***************************************************************************)
(* The detector's result for an image: a list of faces, each a dict that   *)
(* may hold "emotions", a mapping label -> score kept in insertion order.  *)
(***************************************************************************)
Range(s) == {s[i] : i \in DOMAIN s}
SeqsUpTo(S, n) == UNION {[1..k -> S] : k \in 0..n}
Mappings ==
    {m \in SeqsUpTo([label : Labels, score : Scores], Cardinality(Labels)) :
        \A i, j \in DOMAIN m : i # j => m[i].label # m[j].label}
Faces == {[has |-> FALSE, emotions |-> <<>>]}
         \cup {[has |-> TRUE, emotions |-> m] : m \in Mappings}
Detections == SeqsUpTo(Faces, MaxFaces)

(***************************************************************************)
(* The value of payload["image"].  A string is described by what the       *)
(* decoder can tell about it: whether it holds a comma, whether what       *)
(* follows the comma is decodable base64, whether the decoded bytes are an *)
(* image, and (the detector being a function of the image) the faces the   *)
(* detector finds in it.  A JSON value that is no string has t # "str".    *)
(***************************************************************************)
DataUrl(t, comma, b64ok, isimage, faces) ==
    [t |-> t, comma |-> comma, b64ok |-> b64ok, isimage |-> isimage,
     faces |-> faces]
BadDataUrls ==
    { DataUrl("num", FALSE, FALSE, FALSE, <<>>),
      DataUrl("str", FALSE, FALSE, FALSE, <<>>),
      DataUrl("str", TRUE, FALSE, FALSE, <<>>),
      DataUrl("str", TRUE, TRUE, FALSE, <<>>) }
DataUrls(D) == BadDataUrls \cup {DataUrl("str", TRUE, TRUE, TRUE, d) : d \in D}

(***************************************************************************)
(* request.get_json(silent=True): None when the body is no JSON, else the  *)
(* JSON value: a dict (its keys, and the value under "image"), a list, a   *)
(* string (as the list of its words), a number or a boolean.               *)
(***************************************************************************)
NoUrl == DataUrl("none", FALSE, FALSE, FALSE, <<>>)
JsonNone == [t |-> "None", keys |-> {}, items |-> <<>>, val |-> 0, image |-> NoUrl]
JsonDict(keys, image) ==
    [t |-> "dict", keys |-> keys, items |-> <<>>, val |-> 0, image |-> image]
JsonList(items) ==
    [t |-> "list", keys |-> {}, items |-> items, val |-> 0, image |-> NoUrl]
JsonStr(words) ==
    [t |-> "str", keys |-> {}, items |-> words, val |-> 0, image |-> NoUrl]
JsonNum(v) ==
    [t |-> "num", keys |-> {}, items |-> <<>>, val |-> v, image |-> NoUrl]
JsonBool(b) ==
    [t |-> "bool", keys |-> {}, items |-> <<>>, val |-> IF b THEN 1 ELSE 0,
     image |-> NoUrl]
OtherPayloads ==
    { JsonNone, JsonDict({}, NoUrl), JsonDict({"other"}, NoUrl),
      JsonList(<<>>), JsonList(<<"other">>), JsonList(<<"image">>),
      JsonStr(<<>>), JsonStr(<<"other">>), JsonStr(<<"my", "image">>),
      JsonNum(0), JsonNum(1), JsonBool(FALSE), JsonBool(TRUE) }
Payloads(D) ==
    OtherPayloads \cup {JsonDict({"image"}, u) : u \in DataUrls(D)}

\* `not payload`
Falsy(payload) ==
    CASE payload.t = "None" -> TRUE
      [] payload.t = "dict" -> payload.keys = {}
      [] payload.t \in {"list", "str"} -> payload.items = <<>>
      [] OTHER -> payload.val = 0

\* `"image" in payload` is defined for containers and strings only
CanContain(payload) == payload.t \in {"dict", "list", "str"}
Contains(payload) ==
    IF payload.t = "dict" THEN "image" \in payload.keys
    ELSE "image" \in Range(payload.items)

\* `payload["image"]` is defined for a dict only
CanIndex(payload) == payload.t = "dict"

(***************************************************************************)
(* Results of a computation: a value, or an exception that nothing on the  *)
(* way catches.                                                            *)
(***************************************************************************)
Raise(exc) == [k |-> "raise", exc |-> exc, faces |-> <<>>]
ReturnNone == [k |-> "None", exc |-> None, faces |-> <<>>]
ReturnImage(faces) == [k |-> "img", exc |-> None, faces |-> faces]

data_url_to_cv2_image(data_url) ==
    IF data_url.t # "str" THEN Raise("AttributeError")
    ELSE IF ~data_url.comma THEN ReturnNone
    ELSE IF ~data_url.b64ok THEN Raise("binascii.Error")
    ELSE IF ~data_url.isimage THEN Raise("UnidentifiedImageError")
    ELSE ReturnImage(data_url.faces)

detect_emotions(cv_img) == cv_img.faces

(***************************************************************************)
(* max(emotions, key=emotions.get): the keys are visited in insertion      *)
(* order and a later key replaces the best one only when its value is      *)
(* strictly greater.                                                       *)
(***************************************************************************)
RECURSIVE MaxFrom(_, _, _)
MaxFrom(emotions, i, best) ==
    IF i > Len(emotions) THEN best
    ELSE MaxFrom(emotions, i + 1,
                 IF emotions[i].score.val > emotions[best].score.val
                 THEN i ELSE best)
\* Mutant of max: a later key replaces the best one on a tie as well.
RECURSIVE MaxFromLast(_, _, _)
MaxFromLast(emotions, i, best) ==
    IF i > Len(emotions) THEN best
    ELSE MaxFromLast(emotions, i + 1,
                     IF emotions[i].score.val >= emotions[best].score.val
                     THEN i ELSE best)
maxLast(emotions) == emotions[MaxFromLast(emotions, 2, 1)].label
max(emotions) == emotions[MaxFrom(emotions, 2, 1)].label
get(emotions, label) ==
    (CHOOSE e \in Range(emotions) : e.label = label).score

(***************************************************************************)
(* Responses.                                                              *)
(***************************************************************************)
Response(status, emo, conf, text) ==
    [status |-> status, emotion |-> emo, confidence |-> conf, text |-> text,
     history |-> <<>>]
ErrorResponse(text) == Response(400, None, NoScore, text)
ServerError(exc) == Response(500, None, NoScore, exc)
NoResult(message) == Response(200, "null", PyFloat(0), message)
Result(emo, conf) == Response(200, emo, conf, "")
Page == Response(200, None, NoScore, "index.html")
HistoryResponse(data) ==
    [status |-> 200, emotion |-> None, confidence |-> NoScore, text |-> "",
     history |-> data]
NoResponse == Response(0, None, NoScore, "")

(***************************************************************************)
(* predict() up to the call of save_prediction: what it returns or raises, *)
(* or the (emotion, confidence) it goes on to save.                        *)
(***************************************************************************)
Returns(r) == [k |-> "return", resp |-> r, emotion |-> None, confidence |-> NoScore]
Saves(emo, conf) ==
    [k |-> "save", resp |-> NoResponse, emotion |-> emo, confidence |-> conf]

\* Mutant of PickTop: the check `if not emotions` is missing, and max() of an
\* empty mapping raises.
PickTopUnchecked(faces) ==
    IF faces = <<>> THEN Returns(NoResult("No face detected"))
    ELSE LET emotions == IF faces[1].has THEN faces[1].emotions ELSE <<>>
         IN IF emotions = <<>> THEN Returns(ServerError("ValueError"))
            ELSE LET emo == max(emotions)
                 IN Saves(emo, float(get(emotions, emo)))

PickTop(faces) ==
    IF faces = <<>> THEN Returns(NoResult("No face detected"))
    ELSE LET emotions == IF faces[1].has THEN faces[1].emotions ELSE <<>>
         IN IF emotions = <<>> THEN Returns(NoResult("No emotion scores"))
            ELSE LET emo == max(emotions)
                 IN Saves(emo, float(get(emotions, emo)))

predict_local(payload) ==
    IF Falsy(payload) THEN Returns(ErrorResponse("Missing 'image' in JSON body"))
    ELSE IF ~CanContain(payload) THEN Returns(ServerError("TypeError"))
    ELSE IF ~Contains(payload)
         THEN Returns(ErrorResponse("Missing 'image' in JSON body"))
    ELSE IF ~CanIndex(payload) THEN Returns(ServerError("TypeError"))
    ELSE LET cv_img == data_url_to_cv2_image(payload.image)
         IN IF cv_img.k = "raise" THEN Returns(ServerError(cv_img.exc))
            ELSE IF cv_img.k = "None"
                 THEN Returns(ErrorResponse("Invalid image data"))
            ELSE PickTop(detect_emotions(cv_img))

(***************************************************************************)
(* The table `predictions`.                                                *)
(***************************************************************************)
Row(id, timestamp, emo, conf) ==
    [id |-> id, timestamp |-> timestamp, emotion |-> emo, confidence |-> conf]

\* Rows written by earlier runs of the program.
OldRow(i) ==
    Row(i, isoformat([sec |-> i % 3, micro |-> i % 2]),
        IF i % 3 = 0 THEN "happy" ELSE "sad", float(PyInt(50 + 50 * (i % 2))))
OldRows(n) == [i \in 1..n |-> OldRow(i)]

\* Mutant of CreateTableIfNotExists: the table is dropped and created anew.
CreateTableAnew(exists, table) == <<>>

\* CREATE TABLE IF NOT EXISTS predictions (...)
CreateTableIfNotExists(exists, table) == IF exists THEN table ELSE <<>>

\* id INTEGER PRIMARY KEY AUTOINCREMENT: one more than the largest rowid the
\* table ever held.
LastRowid(table) == IF table = <<>> THEN 0 ELSE table[Len(table)].id
Max(a, b) == IF a >= b THEN a ELSE b
Min(a, b) == IF a <= b THEN a ELSE b
NextRowid(table, sequence) == Max(sequence, LastRowid(table)) + 1

\* The B-tree keeps the rows in rowid order.
InsertRow(table, row) ==
    LET below == {i \in DOMAIN table : table[i].id < row.id}
        k == Cardinality(below)
    IN SubSeq(table, 1, k) \o <<row>> \o SubSeq(table, k + 1, Len(table))

\* SELECT timestamp, emotion, confidence
Columns(row) == <<row.timestamp, row.emotion, row.confidence>>

\* Mutant of SelectDesc: ORDER BY id ASC.
SelectAsc(table, before, n) ==
    LET k == IF before = 0 THEN Len(table)
             ELSE Cardinality({i \in DOMAIN table : table[i].id < before})
    IN [j \in 1..Min(n, k) |-> table[j]]

\* ORDER BY id DESC LIMIT n, resumed below rowid `before` (0: from the end):
\* the cursor walks the B-tree backwards.
SelectDesc(table, before, n) ==
    LET k == IF before = 0 THEN Len(table)
             ELSE Cardinality({i \in DOMAIN table : table[i].id < before})
    IN [j \in 1..Min(n, k) |-> table[k - j + 1]]

\* data = [{"timestamp": r[0], "emotion": r[1], "confidence": r[2]} for r in rows]
Data(rs) ==
    [j \in DOMAIN rs |->
        [timestamp |-> rs[j][1], emotion |-> rs[j][2], confidence |-> rs[j][3]]]

(***************************************************************************)
(* Requests.                                                               *)
(***************************************************************************)
Free == "free"
LeakedConn == "leaked"
Request(route, payload) == [route |-> route, payload |-> payload]
NoRequest == Request(None, JsonNone)

\* The inputs of the concurrent specification: no body, an image without a
\* face, and two images with one face and one score each (how predict()
\* treats every other input is settled under SpecPredict).
OneFace(label, score) ==
    <<[has |-> TRUE, emotions |-> <<[label |-> label, score |-> score]>>]>>
LeanDetections ==
    {<<>>, OneFace("happy", PyInt(100)), OneFace("sad", PyFloat(50))}
LeanPayloads ==
    {JsonNone}
    \cup {JsonDict({"image"}, DataUrl("str", TRUE, TRUE, TRUE, d)) :
            d \in LeanDetections}

Init ==
    /\ started = FALSE
    /\ tableExists \in BOOLEAN
    /\ db \in IF tableExists THEN {<<>>, OldRows(HistoryLimit - 1)} ELSE {<<>>}
    /\ seq = Len(db)
    /\ writer = Free
    /\ readers = {}
    /\ conns = {}
    /\ leaked = FALSE
    /\ pc = [p \in Procs |-> "idle"]
    /\ req = [p \in Procs |-> NoRequest]
    /\ emotion = [p \in Procs |-> None]
    /\ confidence = [p \in Procs |-> NoScore]
    /\ ins = [p \in Procs |-> <<>>]
    /\ cursor = [p \in Procs |-> 0]
    /\ rows = [p \in Procs |-> <<>>]
    /\ resp = [p \in Procs |-> NoResponse]
    /\ npredict = 0

dbVars == <<tableExists, db, seq>>
lockVars == <<writer, readers, conns, leaked>>
localVars == <<emotion, confidence, ins, cursor, rows>>

\* init_db(), run when the module is imported, before any request is served.
init_db ==
    /\ ~started
    /\ started' = TRUE
    /\ tableExists' = TRUE
    /\ db' = CreateTableIfNotExists(tableExists, db)
    /\ UNCHANGED <<seq, lockVars, pc, req, localVars, resp, npredict>>

\* The server process ends and is started again: its connections are gone.
Restart ==
    /\ started
    /\ \A p \in Procs : pc[p] = "idle"
    /\ started' = FALSE
    /\ writer' = Free
    /\ leaked' = FALSE
    /\ UNCHANGED <<dbVars, readers, conns, pc, req, localVars, resp, npredict>>

\* A request arrives and is routed.
Receive(p) ==
    /\ started
    /\ pc[p] = "idle"
    /\ \/ /\ \E route \in {"/", "/history"} :
               req' = [req EXCEPT ![p] = Request(route, JsonNone)]
          /\ UNCHANGED npredict
       \/ /\ npredict < MaxPredicts
          /\ \E payload \in LeanPayloads :
               req' = [req EXCEPT ![p] = Request("/predict", payload)]
          /\ npredict' = npredict + 1
    /\ pc' = [pc EXCEPT ![p] = "recv"]
    /\ UNCHANGED <<started, dbVars, lockVars, localVars, resp>>

Return(p, r) ==
    /\ resp' = [resp EXCEPT ![p] = r]
    /\ pc' = [pc EXCEPT ![p] = "done"]

\* index()
index(p) ==
    /\ pc[p] = "recv" /\ req[p].route = "/"
    /\ Return(p, Page)
    /\ UNCHANGED <<started, dbVars, lockVars, req, localVars, npredict>>

\* predict(), lines 101-121
predict(p) ==
    /\ pc[p] = "recv" /\ req[p].route = "/predict"
    /\ LET o == predict_local(req[p].payload)
       IN IF o.k = "return"
          THEN /\ Return(p, o.resp)
               /\ UNCHANGED <<emotion, confidence>>
          ELSE /\ emotion' = [emotion EXCEPT ![p] = o.emotion]
               /\ confidence' = [confidence EXCEPT ![p] = o.confidence]
               /\ pc' = [pc EXCEPT ![p] = "save"]
               /\ UNCHANGED resp
    /\ UNCHANGED <<started, dbVars, lockVars, req, ins, cursor, rows, npredict>>

\* Mutant of NewRow: the confidence is rounded to a whole number.
NewRowRounded(table, sequence, now, emo, conf) ==
    Row(NextRowid(table, sequence), isoformat(now), emo,
        PyFloat(100 * ((conf.val + 50) \div 100)))

\* save_prediction(), lines 56-61: connect and INSERT.  The statement takes the
\* RESERVED lock; the row stays in the connection until the commit.
NewRow(table, sequence, now, emo, conf) ==
    Row(NextRowid(table, sequence), isoformat(now), emo, float(conf))

save_insert(p) ==
    /\ pc[p] = "save"
    /\ writer = Free
    /\ \E now \in Times :
         ins' = [ins EXCEPT ![p] =
                    <<NewRow(db, seq, now, emotion[p], confidence[p])>>]
    /\ writer' = p
    /\ conns' = conns \cup {p}
    /\ pc' = [pc EXCEPT ![p] = "commit"]
    /\ UNCHANGED <<started, dbVars, readers, leaked, req, emotion, confidence,
                   cursor, rows, resp, npredict>>

\* The INSERT finds the database locked by another writer until its busy
\* timeout ends: sqlite3.OperationalError, which nothing catches.
save_insert_busy(p) ==
    /\ pc[p] = "save"
    /\ writer # Free
    /\ conns' = conns \cup {p}
    /\ Return(p, ServerError("OperationalError"))
    /\ UNCHANGED <<started, dbVars, writer, readers, leaked, req, localVars,
                   npredict>>

\* Mutant of Commit: conn.commit() is missing, and close() rolls back.
CommitLost(table, row) == table
\* Mutant of ExclusiveLock: the commit does not wait for the readers.
NoExclusiveLock(shared) == TRUE

\* save_prediction(), lines 62-63: commit and close.  The commit needs the
\* EXCLUSIVE lock, which waits for every reader.
Commit(table, row) == InsertRow(table, row)
ExclusiveLock(shared) == shared = {}

save_commit(p) ==
    /\ pc[p] = "commit"
    /\ ExclusiveLock(readers)
    /\ db' = Commit(db, ins[p][1])
    /\ seq' = ins[p][1].id
    /\ writer' = Free
    /\ conns' = conns \ {p}
    /\ Return(p, Result(emotion[p], confidence[p]))
    /\ UNCHANGED <<started, tableExists, readers, leaked, req, localVars,
                   npredict>>

\* The commit finds a reader at work until its busy timeout ends.
save_commit_busy(p) ==
    /\ pc[p] = "commit"
    /\ ~ExclusiveLock(readers)
    /\ Return(p, ServerError("OperationalError"))
    /\ UNCHANGED <<started, dbVars, lockVars, req, localVars, npredict>>

\* history(), lines 135-137: connect and execute, which steps the statement to
\* its first row.  The statement holds the SHARED lock until it is exhausted.
history_execute(p) ==
    /\ pc[p] = "recv" /\ req[p].route = "/history"
    /\ LET first == SelectDesc(db, 0, Min(1, HistoryLimit))
       IN /\ rows' = [rows EXCEPT ![p] = [j \in DOMAIN first |-> Columns(first[j])]]
          /\ cursor' = [cursor EXCEPT ![p] = IF first = <<>> THEN 0 ELSE first[1].id]
          /\ readers' = IF first = <<>> THEN readers ELSE readers \cup {p}
    /\ conns' = conns \cup {p}
    /\ pc' = [pc EXCEPT ![p] = "fetch"]
    /\ UNCHANGED <<started, dbVars, writer, leaked, req, emotion, confidence,
                   ins, resp, npredict>>

\* history(), lines 138-142: fetchall, close, build the response.
history_fetchall(p) ==
    /\ pc[p] = "fetch"
    /\ LET rest == IF cursor[p] = 0 THEN <<>>
                   ELSE SelectDesc(db, cursor[p], HistoryLimit - Len(rows[p]))
           all == rows[p] \o [j \in DOMAIN rest |-> Columns(rest[j])]
       IN /\ rows' = [rows EXCEPT ![p] = all]
          /\ Return(p, HistoryResponse(Data(all)))
    /\ readers' = readers \ {p}
    /\ conns' = conns \ {p}
    /\ UNCHANGED <<started, dbVars, writer, leaked, req, emotion, confidence,
                   ins, cursor, npredict>>

\* The response is sent and the worker is free again.
Forget(p) ==
    /\ pc' = [pc EXCEPT ![p] = "idle"]
    /\ req' = [req EXCEPT ![p] = NoRequest]
    /\ emotion' = [emotion EXCEPT ![p] = None]
    /\ confidence' = [confidence EXCEPT ![p] = NoScore]
    /\ ins' = [ins EXCEPT ![p] = <<>>]
    /\ cursor' = [cursor EXCEPT ![p] = 0]
    /\ rows' = [rows EXCEPT ![p] = <<>>]
    /\ resp' = [resp EXCEPT ![p] = NoResponse]

Deliver(p) ==
    /\ pc[p] = "done"
    /\ p \notin conns
    /\ Forget(p)
    /\ UNCHANGED <<started, dbVars, lockVars, npredict>>

\* A request that ended in an exception left its connection open.  When the
\* traceback is dropped the connection object is finalised, which closes it
\* and rolls its transaction back.
DeliverFinalised(p) ==
    /\ pc[p] = "done"
    /\ p \in conns
    /\ Forget(p)
    /\ conns' = conns \ {p}
    /\ writer' = IF writer = p THEN Free ELSE writer
    /\ UNCHANGED <<started, dbVars, readers, leaked, npredict>>

\* With debug=True (line 148) the debugger keeps the traceback, and with it
\* the frame's `conn`, and the connection stays open with its lock.
DeliverLeaked(p) ==
    /\ pc[p] = "done"
    /\ p \in conns
    /\ Forget(p)
    /\ conns' = conns \ {p}
    /\ leaked' = TRUE
    /\ writer' = IF writer = p THEN LeakedConn ELSE writer
    /\ UNCHANGED <<started, dbVars, readers, npredict>>

Next ==
    \/ init_db
    \/ Restart
    \/ \E p \in Procs :
        \/ Receive(p)
        \/ index(p)
        \/ predict(p)
        \/ save_insert(p)
        \/ save_insert_busy(p)
        \/ save_commit(p)
        \/ save_commit_busy(p)
        \/ history_execute(p)
        \/ history_fetchall(p)
        \/ Deliver(p)
        \/ DeliverFinalised(p)
        \/ DeliverLeaked(p)

Spec == Init /\ [][Next]_vars

(***************************************************************************)
(* One /predict request handled alone, for every body it can carry.       *)
(***************************************************************************)
InitPredict ==
    /\ started = TRUE
    /\ tableExists = TRUE
    /\ db \in {<<>>, OldRows(HistoryLimit - 1)}
    /\ seq = Len(db)
    /\ writer = Free
    /\ readers = {}
    /\ conns = {}
    /\ leaked = FALSE
    /\ pc = [p \in Procs |-> IF p = "w1" THEN "recv" ELSE "idle"]
    /\ req \in {[p \in Procs |-> IF p = "w1" THEN Request("/predict", payload)
                                 ELSE NoRequest] :
                    payload \in Payloads(Detections)}
    /\ emotion = [p \in Procs |-> None]
    /\ confidence = [p \in Procs |-> NoScore]
    /\ ins = [p \in Procs |-> <<>>]
    /\ cursor = [p \in Procs |-> 0]
    /\ rows = [p \in Procs |-> <<>>]
    /\ resp = [p \in Procs |-> NoResponse]
    /\ npredict = MaxPredicts

NextPredict ==
    \/ predict("w1")
    \/ save_insert("w1")
    \/ save_commit("w1")
    \/ Deliver("w1")

SpecPredict == InitPredict /\ [][NextPredict]_vars

(***************************************************************************)
(* Properties.                                                             *)
(***************************************************************************)
Steps(p) == pc'[p] # pc[p]
IsPredict(p) == req[p].route = "/predict"
IsHistory(p) == req[p].route = "/history"
GotLabel(p) == pc[p] = "done" /\ IsPredict(p) /\ resp[p].emotion \in Labels

\* What the request says about itself, read off the body alone.
HasImageKey(payload) == payload.t = "dict" /\ "image" \in payload.keys
LacksImage(payload) ==
    \/ payload.t = "None"
    \/ Falsy(payload)
    \/ ~(payload.t \in {"dict", "list", "str"} /\ Contains(payload))
Converts(u) == u.t = "str" /\ u.comma /\ u.b64ok /\ u.isimage
SeesImage(p) ==
    IsPredict(p) /\ HasImageKey(req[p].payload) /\ Converts(req[p].payload.image)
FacesOf(p) == req[p].payload.image.faces
FirstScores(p) ==
    IF FacesOf(p) # <<>> /\ FacesOf(p)[1].has THEN FacesOf(p)[1].emotions
    ELSE <<>>

C1_Logged ==
    \A p \in Procs :
        GotLabel(p) =>
            /\ Len(ins[p]) = 1
            /\ Cardinality({i \in DOMAIN db : db[i].id = ins[p][1].id}) = 1
            /\ \E i \in DOMAIN db :
                /\ db[i] = ins[p][1]
                /\ db[i].emotion = resp[p].emotion
                /\ db[i].confidence = resp[p].confidence
C1_OneRow ==
    \A p \in Procs :
        (IsPredict(p) /\ Steps(p) /\ db' # db) =>
            /\ pc[p] = "commit"
            /\ Len(db') = Len(db) + 1
\* C1: a /predict request that answers with a label has appended exactly one
\* row, which is committed by the time of the answer and carries the
\* answer's emotion and confidence; a /predict request changes the table in
\* its commit only, by one row.
C1_PredictLogsResult == []C1_Logged /\ [][C1_OneRow]_vars
C1_Witness == \E p \in Procs : GotLabel(p) /\ Len(db) = HistoryLimit

Newer(table, i) == Cardinality({k \in DOMAIN table : table[k].id > table[i].id})
C2_Answer(p) ==
    LET h == resp'[p].history
    IN /\ resp'[p].status = 200
       /\ Len(h) = Min(100, Len(db))
       /\ \A i \in DOMAIN db :
            LET r == Newer(db, i)
            IN r < 100 =>
                h[r + 1] = [timestamp |-> db[i].timestamp,
                            emotion |-> db[i].emotion,
                            confidence |-> db[i].confidence]
C2_Step(p) ==
    /\ pc'[p] = "fetch" => (rows'[p] = <<>> <=> db = <<>>)
    /\ pc'[p] = "done" =>
        IF rows[p] = <<>> THEN resp'[p] = HistoryResponse(<<>>)
        ELSE C2_Answer(p)
\* C2: /history answers with the rows of the table as its SELECT found it:
\* the place r + 1 of the list holds the columns of the row that r rows are
\* newer than, for every r below 100, and the list holds nothing else (the
\* min(100, N) newest of the N rows, newest first).  A SELECT that found the
\* table empty answers with the empty list.
C2_HistoryNewest ==
    [][\A p \in Procs : (IsHistory(p) /\ Steps(p)) => C2_Step(p)]_vars
C2_Witness ==
    \E p \in Procs :
        /\ pc[p] = "done" /\ IsHistory(p)
        /\ Len(resp[p].history) = 100
        /\ Len(db) > 100

C3_Kept ==
    tableExists =>
        /\ tableExists'
        /\ Len(db') >= Len(db)
        /\ \A i \in DOMAIN db : db'[i] = db[i]
\* C3: no step removes or changes a committed row, nor drops the table.
C3_AppendOnly == [][C3_Kept]_vars
C3_Witness ==
    /\ started
    /\ Len(db) > HistoryLimit
    /\ \E p, q \in Procs :
        /\ pc[p] = "done" /\ IsHistory(p)
        /\ pc[q] = "done" /\ req[q].route = "/"

C4_Top(p) ==
    LET m == FirstScores(p)
    IN \E i \in DOMAIN m :
        /\ \A j \in DOMAIN m : m[j].score.val <= m[i].score.val
        /\ \A j \in 1..(i - 1) : m[j].score.val < m[i].score.val
        /\ emotion[p] = m[i].label
        /\ confidence[p].val = m[i].score.val
\* C4: with a first face that has scores, the label chosen is the first one
\* (in the mapping's order) whose score no other score exceeds, the
\* confidence is that score, and both are what the response carries.
C4_TopEmotion ==
    \A p \in Procs :
        (SeesImage(p) /\ FirstScores(p) # <<>> /\ pc[p] # "recv") =>
            /\ pc[p] \in {"save", "commit", "done"}
            /\ C4_Top(p)
            /\ pc[p] = "done" =>
                /\ resp[p].emotion = emotion[p]
                /\ resp[p].confidence = confidence[p]
C4_Witness ==
    \E p \in Procs :
        /\ pc[p] = "done" /\ SeesImage(p)
        /\ Len(FacesOf(p)) = 2
        /\ Len(FirstScores(p)) = 2
        /\ FirstScores(p)[1].score.val = FirstScores(p)[2].score.val
        /\ FacesOf(p)[2].has
        /\ FacesOf(p)[2].emotions # <<>>
        /\ FacesOf(p)[2].emotions[1].label # FirstScores(p)[1].label
        /\ resp[p].emotion = FirstScores(p)[1].label

\* C5: a body whose "image" is a string that does not convert to an image (no
\* comma, undecodable base64, bytes that are no image) is answered with 400
\* "Invalid image data" and writes nothing.
C5_InvalidImage ==
    \A p \in Procs :
        (pc[p] = "done" /\ IsPredict(p) /\ HasImageKey(req[p].payload)
         /\ req[p].payload.image.t = "str"
         /\ ~Converts(req[p].payload.image)) =>
            /\ resp[p] = ErrorResponse("Invalid image data")
            /\ ins[p] = <<>>

\* C6: a body that is no JSON, is falsy or holds no "image" (neither as a key
\* nor as a member) is answered with 400 and writes nothing.
C6_MissingImage ==
    \A p \in Procs :
        (pc[p] = "done" /\ IsPredict(p) /\ LacksImage(req[p].payload)) =>
            /\ resp[p].status = 400
            /\ ins[p] = <<>>

NoScores(p) == SeesImage(p) /\ FirstScores(p) = <<>>
C7_Answer ==
    \A p \in Procs :
        (NoScores(p) /\ pc[p] # "recv") =>
            /\ pc[p] = "done"
            /\ resp[p].status = 200
            /\ resp[p].emotion = "null"
            /\ resp[p].confidence = PyFloat(0)
            /\ resp[p].text # ""
            /\ ins[p] = <<>>
C7_Frame == \A p \in Procs : (NoScores(p) /\ Steps(p)) => db' = db
\* C7: with no face, or a first face without scores, the answer is emotion
\* null, confidence 0.0 and a message, and the request never writes.
C7_NoFaceNoRecord == []C7_Answer /\ [][C7_Frame]_vars
C7_Witness ==
    \E p \in Procs :
        /\ pc[p] = "done" /\ SeesImage(p)
        /\ Len(FacesOf(p)) = 2
        /\ ~FacesOf(p)[1].has
        /\ FacesOf(p)[2].emotions # <<>>
        /\ resp[p].emotion = "null"

\* C8: a request that has finished has no connection open.
C8_ConnectionsClosed ==
    /\ ~leaked
    /\ \A p \in Procs : pc[p] \in {"idle", "done"} => p \notin conns

C9_Reads(p, q) ==
    LET r == ins[p][1]
        k == Cardinality({i \in DOMAIN db : db[i].id > r.id})
        h == resp'[q].history
    IN k < 100 =>
        /\ k + 1 \in DOMAIN h
        /\ h[k + 1] = [timestamp |-> r.timestamp, emotion |-> r.emotion,
                       confidence |-> r.confidence]
C9_Step(p, q) ==
    /\ pc'[q] = "fetch" => rows'[q] # <<>>
    /\ (pc'[q] = "done" /\ rows[q] # <<>>) => C9_Reads(p, q)
\* C9: a /history request whose SELECT runs while a /predict request has
\* answered with a label finds rows, and its list holds that request's row
\* at place k + 1, k being the number of rows committed after it, if
\* k < 100: at the first place when there is none.
C9_ReadYourWrites ==
    [][\A p, q \in Procs :
        (GotLabel(p) /\ IsHistory(q) /\ Steps(q)) => C9_Step(p, q)]_vars
C9_Witness ==
    \E p, q \in Procs :
        /\ GotLabel(p)
        /\ pc[q] = "done" /\ IsHistory(q)
        /\ Len(resp[q].history) = 100
        /\ ins[p][1].id = HistoryLimit
        /\ Len(db) = HistoryLimit + 1
        /\ resp[q].history[2].emotion = resp[p].emotion

C10_Ids == \A i \in 1..(Len(db) - 1) : db[i].id < db[i + 1].id
C10_Commit ==
    db' # db =>
        /\ Len(db') = Len(db) + 1
        /\ \A i \in DOMAIN db : db'[i] = db[i]
        /\ \A i \in DOMAIN db : db'[Len(db')].id > db[i].id
        /\ db'[Len(db')].id > seq
        /\ \E p \in Procs : pc[p] = "commit" /\ db'[Len(db')] = ins[p][1]
C10_Read ==
    \A q \in Procs :
        (IsHistory(q) /\ pc[q] = "fetch" /\ Steps(q) /\ rows[q] # <<>>) =>
            /\ Len(rows'[q]) = Min(100, Len(db))
            /\ resp'[q].history = Data(rows'[q])
            /\ \A j \in DOMAIN rows'[q] :
                rows'[q][j] = <<db[Len(db) - j + 1].timestamp,
                                db[Len(db) - j + 1].emotion,
                                db[Len(db) - j + 1].confidence>>
            /\ rows'[q][1] = rows[q][1]
C10_ReadEmpty ==
    \A q \in Procs :
        (IsHistory(q) /\ Steps(q)) =>
            /\ pc[q] = "recv" => (rows'[q] = <<>> <=> db = <<>>)
            /\ (pc[q] = "fetch" /\ rows[q] = <<>>) => resp'[q].history = <<>>
\* C10: rowids grow strictly along the table; a commit adds one row whose id
\* is above every id committed before and keeps every other row; and the
\* list a /history request reads is, at the moment its read ends, the newest
\* end of the committed table, whose head is the row its read began with
\* (the empty list when its read began on an empty table).
C10_Serializable ==
    []C10_Ids /\ [][C10_Commit /\ C10_Read /\ C10_ReadEmpty]_vars
C10_Witness ==
    /\ Len(db) = HistoryLimit
    /\ \E p, q \in Procs :
        /\ p # q
        /\ GotLabel(p)
        /\ pc[q] = "done" /\ resp[q] = ServerError("OperationalError")

====
